---- MODULE Spec2Model ----
(***************************************************************************)
(* State-machine model of CorleoneStockCollector.py: the interactive run   *)
(* of main() (market / ticker / date prompts, date-range check, batch      *)
(* fetch through the CSV cache, row filtering, plot dispatch) and the      *)
(* cache directory, which outlives a run.                                  *)
(*                                                                         *)
(* Python strings are sequences of one-character strings, so that          *)
(* str.replace, str.split, str.strip, re.fullmatch, int() and string       *)
(* comparison are computed character by character.                         *)
(***************************************************************************)
EXTENDS Integers, Sequences, FiniteSets, TLC

VARIABLES
    pc,               \* position of the run inside main()
    market,           \* name returned by get_market_choice, "" before
    choices,          \* last text typed at the ticker prompt, None before
    selected_tickers, \* list returned by get_ticker_choices
    start_date,       \* string returned by get_date("Start Date")
    end_date,         \* string returned by get_date("End Date")
    idx,              \* position of the for loop of download_and_cache_data
    data,             \* the dict built by download_and_cache_data
    cache,            \* files of CACHE_DIR: file path -> CSV content
    cache_dir,        \* TRUE once CACHE_DIR exists
    log,              \* the per-ticker notices printed by the batch fetch
    plot_input,       \* text typed at the plot prompt, None before
    rendered,         \* renderer variant called by main(), "none" before
    plotted,          \* tickers the called renderer drew
    exit_status,      \* process exit status, -1 while running
    runs,             \* number of runs started so far
    cache0            \* content of the cache directory when the run began

vars == <<pc, market, choices, selected_tickers, start_date, end_date, idx,
          data, cache, cache_dir, log, plot_input, rendered, plotted,
          exit_status, runs, cache0>>

None == <<"None">>
\* the missing value of a cell (prices are never negative)
NaN == -1

\* number of runs of the script against one cache directory
MaxRuns == 2

-----------------------------------------------------------------------------
(* Python string primitives *)

DigitChars == {"0", "1", "2", "3", "4", "5", "6", "7", "8", "9"}

WhitespaceChars == {" ", "\t"}

DigitVal(c) ==
    CASE c = "0" -> 0 [] c = "1" -> 1 [] c = "2" -> 2 [] c = "3" -> 3
      [] c = "4" -> 4 [] c = "5" -> 5 [] c = "6" -> 6 [] c = "7" -> 7
      [] c = "8" -> 8 [] c = "9" -> 9

DigitChar(n) ==
    CASE n = 0 -> "0" [] n = 1 -> "1" [] n = 2 -> "2" [] n = 3 -> "3"
      [] n = 4 -> "4" [] n = 5 -> "5" [] n = 6 -> "6" [] n = 7 -> "7"
      [] n = 8 -> "8" [] n = 9 -> "9"

\* code point of a character (the order Python compares strings by)
Ord(c) ==
    CASE c = "\t" -> 9 [] c = " " -> 32 [] c = "+" -> 43 [] c = "," -> 44
      [] c = "-" -> 45 [] c = "." -> 46 [] c = "/" -> 47
      [] c \in DigitChars -> 48 + DigitVal(c)
      [] c = "A" -> 65 [] c = "B" -> 66 [] c = "V" -> 86
      [] c = "_" -> 95 [] c = "c" -> 99 [] c = "s" -> 115 [] c = "v" -> 118
      [] c = "x" -> 120
      [] OTHER -> 128

RECURSIVE PyStrLess(_, _)
\* a < b on Python strings: lexicographic by code point
PyStrLess(a, b) ==
    IF b = <<>> THEN FALSE
    ELSE IF a = <<>> THEN TRUE
    ELSE IF Ord(Head(a)) # Ord(Head(b)) THEN Ord(Head(a)) < Ord(Head(b))
    ELSE PyStrLess(Tail(a), Tail(b))

PyStrGreater(a, b) == PyStrLess(b, a)

RECURSIVE LStrip(_)
LStrip(s) ==
    IF s # <<>> /\ Head(s) \in WhitespaceChars THEN LStrip(Tail(s)) ELSE s

RECURSIVE RStrip(_)
RStrip(s) ==
    IF s # <<>> /\ s[Len(s)] \in WhitespaceChars
    THEN RStrip(SubSeq(s, 1, Len(s) - 1)) ELSE s

\* str.strip()
Strip(s) == RStrip(LStrip(s))

\* str.replace(old, new) for one-character old and new
Replace(s, old, new) == [i \in 1..Len(s) |-> IF s[i] = old THEN new ELSE s[i]]

RECURSIVE Split(_, _)
\* str.split(sep) for a one-character sep
Split(s, sep) ==
    IF \E i \in 1..Len(s) : s[i] = sep
    THEN LET i == CHOOSE j \in 1..Len(s) :
                      s[j] = sep /\ \A k \in 1..(j - 1) : s[k] # sep
         IN  <<SubSeq(s, 1, i - 1)>> \o Split(SubSeq(s, i + 1, Len(s)), sep)
    ELSE <<s>>

IsDigits(s) == s # <<>> /\ \A i \in 1..Len(s) : s[i] \in DigitChars

RECURSIVE DigitsValue(_)
DigitsValue(s) ==
    IF s = <<>> THEN 0
    ELSE 10 * DigitsValue(SubSeq(s, 1, Len(s) - 1)) + DigitVal(s[Len(s)])

RECURSIVE DigitsOf(_)
DigitsOf(n) ==
    IF n < 10 THEN <<DigitChar(n)>>
    ELSE DigitsOf(n \div 10) \o <<DigitChar(n % 10)>>

\* int(s): a record [ok, val]; ok = FALSE stands for ValueError
PyInt(s) ==
    LET t == Strip(s)
        signed == t # <<>> /\ Head(t) \in {"+", "-"}
        body == IF signed THEN Tail(t) ELSE t
    IN  IF IsDigits(body)
        THEN [ok |-> TRUE,
              val |-> IF signed /\ Head(t) = "-" THEN 0 - DigitsValue(body)
                      ELSE DigitsValue(body)]
        ELSE [ok |-> FALSE, val |-> 0]

-----------------------------------------------------------------------------
(* Regular expressions of the prompts *)

\* positions reachable from i by matching \d+
DigitRunEnds(s, i) ==
    {j \in (i + 1)..(Len(s) + 1) : \A k \in i..(j - 1) : s[k] \in DigitChars}

\* positions reachable from i by matching \d+,?
GroupEnds(s, i) ==
    DigitRunEnds(s, i) \cup
    {j + 1 : j \in {e \in DigitRunEnds(s, i) : e <= Len(s) /\ s[e] = ","}}

RECURSIVE StarEnds(_, _)
\* positions reachable from the set P by matching (\d+,?)*
StarEnds(s, P) ==
    LET Q == P \cup UNION {GroupEnds(s, i) : i \in P}
    IN  IF Q = P THEN P ELSE StarEnds(s, Q)

\* a looser pattern, [\d,]+ : any run of digits and commas
TickerPatternMatch_loose(s) ==
    s # <<>> /\ \A i \in 1..Len(s) : s[i] \in DigitChars \cup {","}

\* re.fullmatch(r'(\d+,?)*\d+', s)
TickerPatternMatch(s) ==
    (Len(s) + 1) \in UNION {DigitRunEnds(s, i) : i \in StarEnds(s, {1})}

\* re.fullmatch(r'\d{4}-\d{2}-\d{2}', s)
DatePatternMatch(s) ==
    /\ Len(s) = 10
    /\ \A i \in {1, 2, 3, 4, 6, 7, 9, 10} : s[i] \in DigitChars
    /\ s[5] = "-"
    /\ s[8] = "-"

-----------------------------------------------------------------------------
(* The catalog and the cache location *)

\* 'cache', with the separator os.path.join puts after it
CACHE_DIR == <<"c", "a", "c", "h", "e", "/">>

T_BdotA == <<"B", ".", "A">>
T_B_A == <<"B", "_", "A">>
T_V == <<"V">>

\* MARKETS as loaded from markets.json: market name -> ordered ticker list,
\* in the order of the document; a ticker may occur twice in a list
MARKETS ==
    << [name |-> "M1", tickers |-> <<T_BdotA, T_B_A, T_V, T_BdotA, T_V>>],
       [name |-> "M2", tickers |-> <<T_V, T_B_A>>] >>

MarketNames == {MARKETS[i].name : i \in 1..Len(MARKETS)}

\* MARKETS[market]
TickersOf(m) ==
    MARKETS[CHOOSE i \in 1..Len(MARKETS) : MARKETS[i].name = m].tickers

AllTickers == UNION {{MARKETS[i].tickers[j] : j \in 1..Len(MARKETS[i].tickers)}
                     : i \in 1..Len(MARKETS)}

\* the ticker used for the file name as it is
Sanitize_identity(ticker) == ticker

\* ticker.replace(".", "_")
Sanitize(ticker) == Replace(ticker, ".", "_")

\* os.path.join(CACHE_DIR, f"{sanitized_ticker}_{start_date}_{end_date}.csv")
FilePath(ticker, s, e) ==
    CACHE_DIR \o Sanitize(ticker) \o <<"_">> \o s \o <<"_">> \o e
              \o <<".", "c", "s", "v">>

\* os.path.exists(file_path) replaced by False: the cache is never consulted
FileExists_never(path) == FALSE

\* os.path.exists(file_path)
FileExists(path) == path \in DOMAIN cache

-----------------------------------------------------------------------------
(* Tables: a DataFrame is a sequence of rows [Date, Open, Close]; a cell   *)
(* is an integral float or NaN; a CSV file is a sequence of lines, each a  *)
(* sequence of fields, each a string.                                      *)

Pad2(n) == IF n < 10 THEN <<"0">> \o DigitsOf(n) ELSE DigitsOf(n)

\* a Timestamp [y, m, d] written by to_csv
FormatDate(ts) == DigitsOf(ts.y) \o <<"-">> \o Pad2(ts.m) \o <<"-">> \o Pad2(ts.d)

\* a date field read back with parse_dates=True
ParseDate(f) ==
    [y |-> DigitsValue(SubSeq(f, 1, 4)),
     m |-> DigitsValue(SubSeq(f, 6, 7)),
     d |-> DigitsValue(SubSeq(f, 9, 10))]

\* a float cell written by to_csv: NaN is the empty field
FormatFloat(v) ==
    IF v = NaN THEN <<>> ELSE DigitsOf(v) \o <<".", "0">>

\* a float field read back by read_csv
ParseFloat(f) ==
    IF f = <<>> THEN NaN ELSE DigitsValue(Head(Split(f, ".")))

F_Date == <<"D", "a", "t", "e">>
F_Open == <<"O", "p", "e", "n">>
F_Close == <<"C", "l", "o", "s", "e">>

\* DataFrame.to_csv: a header line, then one line per row
to_csv(df) ==
    <<<<F_Date, F_Open, F_Close>>>> \o
    [i \in 1..Len(df) |->
        <<FormatDate(df[i].Date), FormatFloat(df[i].Open),
          FormatFloat(df[i].Close)>>]

ColumnOf(header, name) == CHOOSE c \in 1..Len(header) : header[c] = name

\* pd.read_csv(file_path, index_col='Date', parse_dates=True)
read_csv(csv) ==
    LET header == csv[1]
    IN  [i \in 1..(Len(csv) - 1) |->
            [Date |-> ParseDate(csv[i + 1][ColumnOf(header, F_Date)]),
             Open |-> ParseFloat(csv[i + 1][ColumnOf(header, F_Open)]),
             Close |-> ParseFloat(csv[i + 1][ColumnOf(header, F_Close)])]]

\* the emptiness test of the downloaded table left out
IsEmpty_never(df) == FALSE

\* DataFrame.empty
IsEmpty(df) == df = <<>>

\* a missing value in a column of the row (Date is the index, not a column)
HasNaN(row) == \E f \in DOMAIN row \ {"Date"} : row[f] = NaN

\* DataFrame.dropna()
DropNa(df) == SelectSeq(df, LAMBDA row : ~HasNaN(row))

RECURSIVE SumClose(_, _, _)
SumClose(df, lo, hi) ==
    IF lo > hi THEN 0 ELSE df[hi].Close + SumClose(df, lo, hi - 1)

\* df['Close'].rolling(window=w).mean() at row i
RollingMean(df, w, i) ==
    IF i < w \/ \E k \in (i - w + 1)..i : df[k].Close = NaN THEN NaN
    ELSE SumClose(df, i - w + 1, i) \div w

\* stock_data['MA20'] = ... ; stock_data['MA50'] = ...
WithMovingAverages(df) ==
    [i \in 1..Len(df) |->
        [Date |-> df[i].Date, Open |-> df[i].Open, Close |-> df[i].Close,
         MA20 |-> RollingMean(df, 20, i), MA50 |-> RollingMean(df, 50, i)]]

-----------------------------------------------------------------------------
(* Texts typed at the prompts and answers of the data provider *)

D_Jan == <<"2", "0", "2", "4", "-", "0", "1", "-", "0", "1">>
D_Feb == <<"2", "0", "2", "4", "-", "0", "2", "-", "0", "1">>

MarketInputs == {<<"1">>, <<"2">>, <<"3">>, <<"0">>, <<"x">>, <<>>}

TickerInputs ==
    { <<"1", ",", "3", ",", "4">>,      \* 1,3,4
      <<"1", ",", "2">>,                \* 1,2
      <<"3">>,                          \* 3
      <<" ", "2", ",", "1", " ">>,      \* " 2,1 "
      <<"1", ",", ",", "3">>,           \* 1,,3
      <<"1", "-", "3">>,                \* 1-3
      <<"1", ",", " ", "3">>,           \* "1, 3"
      <<"1", ",", "6">>,                \* 1,6
      <<"0", ",", "1">>,                \* 0,1
      <<"1", ",">>,                     \* "1,"
      <<",", "1">>,                     \* ",1"
      <<>> }

DateInputs ==
    { D_Jan, D_Feb,
      <<" ">> \o D_Feb,
      <<"2", "0", "2", "4", "/", "0", "1", "/", "0", "5">>,
      <<"2", "4", "-", "0", "1", "-", "0", "5">> }

PlotInputs ==
    {<<"1">>, <<"2">>, <<"3">>, <<"4">>, <<"5">>, <<" ", "2">>, <<"x">>}

Day(d) == [y |-> 2024, m |-> 1, d |-> d]

\* tables yf.download may answer with; the empty table is one of them
ProviderTables ==
    { <<>>,
      << [Date |-> Day(2), Open |-> 12, Close |-> NaN],
         [Date |-> Day(3), Open |-> 7, Close |-> 10] >>,
      << [Date |-> Day(2), Open |-> NaN, Close |-> NaN] >> }

\* a dict with one more (or one replaced) entry: d[k] = v
DictSet(d, k, v) ==
    [x \in DOMAIN d \cup {k} |-> IF x = k THEN v ELSE d[x]]

EmptyDict == [x \in {} |-> <<>>]

Notice(kind, ticker, path) == [kind |-> kind, ticker |-> ticker, path |-> path]

-----------------------------------------------------------------------------
(* The run *)

Init ==
    /\ pc = "market"
    /\ market = ""
    /\ choices = None
    /\ selected_tickers = <<>>
    /\ start_date = None
    /\ end_date = None
    /\ idx = 0
    /\ data = EmptyDict
    /\ cache = EmptyDict
    /\ cache_dir = FALSE
    /\ log = <<>>
    /\ plot_input = None
    /\ rendered = "none"
    /\ plotted = <<>>
    /\ exit_status = -1
    /\ runs = 1
    /\ cache0 = EmptyDict

\* get_market_choice: one pass of its loop
GetMarketChoice(inp) ==
    /\ pc = "market"
    /\ LET choice == PyInt(inp)
       IN  IF choice.ok /\ 1 <= choice.val /\ choice.val <= Len(MARKETS)
           THEN /\ market' = MARKETS[choice.val].name
                /\ pc' = "tickers"
           ELSE UNCHANGED <<market, pc>>
    /\ UNCHANGED <<choices, selected_tickers, start_date, end_date, idx, data,
                   cache, cache_dir, log, plot_input, rendered, plotted,
                   exit_status, runs, cache0>>

\* all(1 <= idx <= len(tickers) for idx in indices)
IndicesInRange(indices, tickers) ==
    \A k \in 1..Len(indices) : 1 <= indices[k] /\ indices[k] <= Len(tickers)

\* [int(num.strip()) for num in choices.split(",")]; -1 where int() raises
IndicesOf(inp) ==
    LET parts == Split(inp, ",")
    IN  [k \in 1..Len(parts) |->
            IF PyInt(Strip(parts[k])).ok THEN PyInt(Strip(parts[k])).val
            ELSE -1]

\* get_ticker_choices: one pass of its loop
GetTickerChoices(inp) ==
    /\ pc = "tickers"
    /\ choices' = inp
    /\ LET tickers == TickersOf(market)
           indices == IndicesOf(inp)
       IN  IF TickerPatternMatch(Strip(inp))
           THEN IF \E k \in 1..Len(indices) : indices[k] = -1
                THEN \* ValueError leaves main(): traceback, status 1
                     /\ pc' = "done"
                     /\ exit_status' = 1
                     /\ UNCHANGED selected_tickers
                ELSE IF IndicesInRange(indices, tickers)
                THEN /\ selected_tickers' =
                            [k \in 1..Len(indices) |-> tickers[indices[k]]]
                     /\ pc' = "start"
                     /\ UNCHANGED exit_status
                ELSE UNCHANGED <<selected_tickers, pc, exit_status>>
           ELSE UNCHANGED <<selected_tickers, pc, exit_status>>
    /\ UNCHANGED <<market, start_date, end_date, idx, data, cache, cache_dir,
                   log, plot_input, rendered, plotted, runs, cache0>>

\* get_date("Start Date"): one pass of its loop
GetStartDate(inp) ==
    /\ pc = "start"
    /\ IF DatePatternMatch(Strip(inp))
       THEN /\ start_date' = Strip(inp)
            /\ pc' = "end"
       ELSE UNCHANGED <<start_date, pc>>
    /\ UNCHANGED <<market, choices, selected_tickers, end_date, idx, data,
                   cache, cache_dir, log, plot_input, rendered, plotted,
                   exit_status, runs, cache0>>

\* get_date("End Date"): one pass of its loop
GetEndDate(inp) ==
    /\ pc = "end"
    /\ IF DatePatternMatch(Strip(inp))
       THEN /\ end_date' = Strip(inp)
            /\ pc' = "validate"
       ELSE UNCHANGED <<end_date, pc>>
    /\ UNCHANGED <<market, choices, selected_tickers, start_date, idx, data,
                   cache, cache_dir, log, plot_input, rendered, plotted,
                   exit_status, runs, cache0>>

\* the comparison written the wrong way round: end_date > start_date
DateRangeInvalid_swapped(s, e) == PyStrGreater(e, s)

\* start_date > end_date
DateRangeInvalid(s, e) == PyStrGreater(s, e)

\* main(): the date-range check and the selection summary
ValidateDateRange ==
    /\ pc = "validate"
    /\ IF DateRangeInvalid(start_date, end_date)
       THEN /\ pc' = "done"
            /\ exit_status' = 1
       ELSE /\ pc' = "download"
            /\ UNCHANGED exit_status
    /\ UNCHANGED <<market, choices, selected_tickers, start_date, end_date,
                   idx, data, cache, cache_dir, log, plot_input, rendered,
                   plotted, runs, cache0>>

\* download_and_cache_data: creation of CACHE_DIR, data = {}
DownloadBegin ==
    /\ pc = "download"
    /\ cache_dir' = TRUE
    /\ data' = EmptyDict
    /\ idx' = 1
    /\ pc' = "fetch"
    /\ UNCHANGED <<market, choices, selected_tickers, start_date, end_date,
                   cache, log, plot_input, rendered, plotted, exit_status,
                   runs, cache0>>

CurrentTicker == selected_tickers[idx]

CurrentPath == FilePath(CurrentTicker, start_date, end_date)

InLoop == pc = "fetch" /\ idx <= Len(selected_tickers)

LoopFrame == <<market, choices, selected_tickers, start_date, end_date,
               cache_dir, plot_input, rendered, plotted, runs, cache0>>

\* the file exists but is refreshed: downloaded again and overwritten
LoadCached_refresh ==
    /\ InLoop
    /\ FileExists(CurrentPath)
    /\ \E table \in ProviderTables \ {<<>>} :
          /\ cache' = DictSet(cache, CurrentPath, to_csv(table))
          /\ data' = DictSet(data, CurrentTicker, read_csv(to_csv(table)))
    /\ log' = Append(log, Notice("cached", CurrentTicker, CurrentPath))
    /\ idx' = idx + 1
    /\ UNCHANGED <<pc, exit_status>>
    /\ UNCHANGED LoopFrame

\* loop body, the file exists: read it, data[ticker] = stock_data
LoadCached ==
    /\ InLoop
    /\ FileExists(CurrentPath)
    /\ data' = DictSet(data, CurrentTicker, read_csv(cache[CurrentPath]))
    /\ log' = Append(log, Notice("cached", CurrentTicker, CurrentPath))
    /\ idx' = idx + 1
    /\ UNCHANGED <<pc, cache, exit_status>>
    /\ UNCHANGED LoopFrame

\* loop body, no file, the provider answers a non-empty table: save it
DownloadSaved(table) ==
    /\ InLoop
    /\ ~FileExists(CurrentPath)
    /\ ~IsEmpty(table)
    /\ cache' = DictSet(cache, CurrentPath, to_csv(table))
    /\ data' = DictSet(data, CurrentTicker, table)
    /\ log' = Append(log, Notice("saved", CurrentTicker, CurrentPath))
    /\ idx' = idx + 1
    /\ UNCHANGED <<pc, exit_status>>
    /\ UNCHANGED LoopFrame

\* the empty table written to the file before the emptiness test
DownloadEmpty_saves(table) ==
    /\ InLoop
    /\ ~FileExists(CurrentPath)
    /\ IsEmpty(table)
    /\ cache' = DictSet(cache, CurrentPath, to_csv(table))
    /\ log' = Append(log, Notice("empty", CurrentTicker, CurrentPath))
    /\ idx' = idx + 1
    /\ UNCHANGED <<pc, data, exit_status>>
    /\ UNCHANGED LoopFrame

\* loop body, no file, the provider answers an empty table: continue
DownloadEmpty(table) ==
    /\ InLoop
    /\ ~FileExists(CurrentPath)
    /\ IsEmpty(table)
    /\ log' = Append(log, Notice("empty", CurrentTicker, CurrentPath))
    /\ idx' = idx + 1
    /\ UNCHANGED <<pc, data, cache, exit_status>>
    /\ UNCHANGED LoopFrame

\* the provider's exception not caught: it leaves main() with status 1
DownloadError_abort ==
    /\ InLoop
    /\ ~FileExists(CurrentPath)
    /\ log' = Append(log, Notice("error", CurrentTicker, CurrentPath))
    /\ pc' = "done"
    /\ exit_status' = 1
    /\ UNCHANGED <<idx, data, cache>>
    /\ UNCHANGED LoopFrame

\* loop body, no file, yf.download raises: except Exception, continue
DownloadError ==
    /\ InLoop
    /\ ~FileExists(CurrentPath)
    /\ log' = Append(log, Notice("error", CurrentTicker, CurrentPath))
    /\ idx' = idx + 1
    /\ UNCHANGED <<pc, data, cache, exit_status>>
    /\ UNCHANGED LoopFrame

\* download_and_cache_data: return data
DownloadReturn ==
    /\ pc = "fetch"
    /\ idx > Len(selected_tickers)
    /\ pc' = "check"
    /\ UNCHANGED <<market, choices, selected_tickers, start_date, end_date,
                   idx, data, cache, cache_dir, log, plot_input, rendered,
                   plotted, exit_status, runs, cache0>>

\* the emptiness test of the mapping left out
NoData_never(d) == FALSE

\* not data
NoData(d) == DOMAIN d = {}

\* main(): if not data: sys.exit(1)
CheckData ==
    /\ pc = "check"
    /\ IF NoData(data)
       THEN /\ pc' = "done"
            /\ exit_status' = 1
       ELSE /\ pc' = "filter"
            /\ UNCHANGED exit_status
    /\ UNCHANGED <<market, choices, selected_tickers, start_date, end_date,
                   idx, data, cache, cache_dir, log, plot_input, rendered,
                   plotted, runs, cache0>>

\* main(): data[ticker].dropna(inplace=True) for every selected ticker
FilterData ==
    /\ pc = "filter"
    /\ data' = [t \in DOMAIN data |-> DropNa(data[t])]
    /\ pc' = "plot"
    /\ UNCHANGED <<market, choices, selected_tickers, start_date, end_date,
                   idx, cache, cache_dir, log, plot_input, rendered, plotted,
                   exit_status, runs, cache0>>

\* the if / elif chain of main() over the plot choice
PlotVariant(choice) ==
    CASE choice = 1 -> "line"
      [] choice = 2 -> "styled"
      [] choice = 3 -> "faceted"
      [] choice = 4 -> "interactive"
      [] OTHER -> "line"

\* the tickers a renderer does not skip: present in data and not empty
DrawnTickers(d, tickers) ==
    SelectSeq(tickers, LAMBDA t : t \in DOMAIN d /\ ~IsEmpty(d[t]))

\* plot_data and sns_plot_data add MA20 and MA50 to the tables they draw;
\* plot_data_facets and plot_data_interactive work on copies
DataAfterRender(variant, d, tickers) ==
    IF variant \in {"line", "styled"}
    THEN [t \in DOMAIN d |->
            IF ~IsEmpty(d[t]) /\ \E k \in 1..Len(tickers) : tickers[k] = t
            THEN WithMovingAverages(d[t]) ELSE d[t]]
    ELSE d

\* plot_data_facets and plot_data_interactive melt the combined table,
\* which raises KeyError when no ticker was drawn
RenderRaises(variant, d, tickers) ==
    variant \in {"faceted", "interactive"} /\ DrawnTickers(d, tickers) = <<>>

\* main(): choice = int(input()), the dispatch and the renderer it calls
ChoosePlot(inp) ==
    /\ pc = "plot"
    /\ plot_input' = inp
    /\ pc' = "done"
    /\ LET choice == PyInt(inp)
           variant == PlotVariant(choice.val)
       IN  IF ~choice.ok
           THEN \* ValueError leaves main(): traceback, status 1
                /\ exit_status' = 1
                /\ UNCHANGED <<rendered, plotted, data>>
           ELSE /\ rendered' = variant
                /\ plotted' = DrawnTickers(data, selected_tickers)
                /\ data' = DataAfterRender(variant, data, selected_tickers)
                /\ exit_status' =
                       IF RenderRaises(variant, data, selected_tickers)
                       THEN 1 ELSE 0
    /\ UNCHANGED <<market, choices, selected_tickers, start_date, end_date,
                   idx, cache, cache_dir, log, runs, cache0>>

\* the script is started again; the cache directory is what the last run left
NewRun ==
    /\ pc = "done"
    /\ runs < MaxRuns
    /\ runs' = runs + 1
    /\ cache0' = cache
    /\ pc' = "market"
    /\ market' = ""
    /\ choices' = None
    /\ selected_tickers' = <<>>
    /\ start_date' = None
    /\ end_date' = None
    /\ idx' = 0
    /\ data' = EmptyDict
    /\ log' = <<>>
    /\ plot_input' = None
    /\ rendered' = "none"
    /\ plotted' = <<>>
    /\ exit_status' = -1
    /\ UNCHANGED <<cache, cache_dir>>

Next ==
    \/ \E inp \in MarketInputs : GetMarketChoice(inp)
    \/ \E inp \in TickerInputs : GetTickerChoices(inp)
    \/ \E inp \in DateInputs : GetStartDate(inp)
    \/ \E inp \in DateInputs : GetEndDate(inp)
    \/ ValidateDateRange
    \/ DownloadBegin
    \/ LoadCached
    \/ \E table \in ProviderTables : DownloadSaved(table)
    \/ \E table \in ProviderTables : DownloadEmpty(table)
    \/ DownloadError
    \/ DownloadReturn
    \/ CheckData
    \/ FilterData
    \/ \E inp \in PlotInputs : ChoosePlot(inp)
    \/ NewRun

Spec == Init /\ [][Next]_vars

-----------------------------------------------------------------------------
(* Vocabulary of the properties *)

Last(q) == q[Len(q)]

ProviderKinds == {"saved", "empty", "error"}

\* the batch fetch of this run has returned
BatchReturned ==
    /\ pc \in {"check", "filter", "plot", "done"}
    /\ selected_tickers # <<>>
    /\ Len(log) = Len(selected_tickers)

\* the tickers of this run whose fetch yielded a table
Succeeded == {log[k].ticker : k \in {j \in 1..Len(log) :
                                        log[j].kind \in {"cached", "saved"}}}

DatesCollected == start_date # None /\ end_date # None

\* two tickers that are equal except that one may have '.' where the other
\* has '_'
SameUpToDot(t1, t2) ==
    /\ Len(t1) = Len(t2)
    /\ \A i \in 1..Len(t1) :
          t1[i] = t2[i] \/ (t1[i] \in {".", "_"} /\ t2[i] \in {".", "_"})

\* a text that is one or more digit groups separated by single commas
DigitGroups(s) ==
    LET parts == Split(s, ",")
    IN  \A k \in 1..Len(parts) : IsDigits(parts[k])

\* the tickers at the 1-based indices a well-formed text names
Picks(s, tickers) ==
    LET parts == Split(s, ",")
    IN  [k \in 1..Len(parts) |-> tickers[DigitsValue(parts[k])]]

AllPicksInRange(s, tickers) ==
    LET parts == Split(s, ",")
    IN  \A k \in 1..Len(parts) :
           DigitsValue(parts[k]) \in 1..Len(tickers)

\* the ticker prompt has been answered and the answer was accepted
TickersAccepted == choices # None /\ pc # "tickers"

-----------------------------------------------------------------------------
(* C1 *)

\* C1 (cache-hit idempotence): when a ticker is processed whose snapshot
\* file already exists, the step is a cache load, never a provider call;
\* the ticker's entry of the mapping becomes the table read from that
\* snapshot, and the snapshot is left as it was.
C1_CacheHit ==
    [][ (InLoop /\ CurrentPath \in DOMAIN cache) =>
           /\ Len(log') = Len(log) + 1
           /\ Last(log').kind = "cached"
           /\ Last(log').kind \notin ProviderKinds
           /\ CurrentTicker \in DOMAIN data'
           /\ data'[CurrentTicker] = read_csv(cache[CurrentPath])
           /\ cache' = cache ]_vars

\* a later run fetched a ticker whose snapshot an earlier run had persisted
C1_Witness ==
    /\ runs = 2
    /\ pc = "check"
    /\ \E k \in 1..Len(log) :
          /\ log[k].kind = "cached"
          /\ log[k].path \in DOMAIN cache0
          /\ data[log[k].ticker] = read_csv(cache0[log[k].path])

-----------------------------------------------------------------------------
(* C2 *)

\* C2 (per-ticker failure isolation): no step of the batch fetch ends the
\* run or leaves the loop early, each step moves on to the next ticker;
\* when the batch returns every selected ticker has been processed in
\* order, the mapping holds exactly the tickers that succeeded, and with at
\* least one success the run goes on towards rendering.
C2_FailureIsolation ==
    [][ /\ InLoop => /\ pc' = "fetch"
                     /\ idx' = idx + 1
                     /\ exit_status' = -1
                     /\ log' = Append(log, Last(log'))
                     /\ Last(log').ticker = CurrentTicker
        /\ pc = "check" =>
              /\ Len(log) = Len(selected_tickers)
              /\ \A k \in 1..Len(log) : log[k].ticker = selected_tickers[k]
              /\ DOMAIN data = Succeeded
              /\ (Succeeded # {} => pc' = "filter" /\ exit_status' = -1)
      ]_vars

\* a ticker failed, a later one was downloaded, and a renderer ran
C2_Witness ==
    /\ pc = "done"
    /\ rendered # "none"
    /\ exit_status = 0
    /\ \E k, j \in 1..Len(log) :
          /\ k < j
          /\ log[k].kind \in {"error", "empty"}
          /\ log[j].kind = "saved"
          /\ log[k].ticker \notin DOMAIN data
          /\ log[j].ticker \in DOMAIN data

-----------------------------------------------------------------------------
(* C3 *)

\* C3: while the batch fetch builds the mapping and when it returns it, no
\* key of the mapping maps to an empty table, whether the table came from a
\* snapshot or from the provider.
C3_NoEmptySeries ==
    pc \in {"fetch", "check"} =>
        \A t \in DOMAIN data : Len(data[t]) > 0

\* the returned mapping has one table from a snapshot and one from the
\* provider
C3_Witness ==
    /\ pc = "check"
    /\ \E k, j \in 1..Len(log) :
          /\ log[k].kind = "cached"
          /\ log[j].kind = "saved"
          /\ log[k].ticker # log[j].ticker
          /\ {log[k].ticker, log[j].ticker} \subseteq DOMAIN data

-----------------------------------------------------------------------------
(* C4 *)

\* C4 (date order before any fetch): with a start date string greater than
\* the end date string the run can only be at the check or ended with
\* status 1, with no cache directory creation, no cache lookup, no provider
\* call and no snapshot write; the check itself ends the run with status 1;
\* and the fetch stages are reached only with start <= end.
C4_DateOrder ==
    /\ [] ( /\ (DatesCollected /\ PyStrLess(end_date, start_date)) =>
                  /\ pc \in {"validate", "done"}
                  /\ pc = "done" => exit_status = 1
                  /\ log = <<>>
                  /\ idx = 0
                  /\ data = EmptyDict
                  /\ cache = cache0
                  /\ rendered = "none"
            /\ (pc \in {"download", "fetch", "check", "filter", "plot"}
                    \/ log # <<>> \/ cache # cache0) =>
                  /\ DatesCollected
                  /\ ~PyStrLess(end_date, start_date) )
    /\ [][ (pc = "validate" /\ PyStrLess(end_date, start_date)) =>
              (pc' = "done" /\ exit_status' = 1 /\ cache' = cache) ]_vars

\* start 2024-02-01, end 2024-01-01: the run ended with status 1
C4_Witness ==
    /\ start_date = D_Feb
    /\ end_date = D_Jan
    /\ pc = "done"
    /\ exit_status = 1
    /\ log = <<>>

-----------------------------------------------------------------------------
(* C5 *)

\* the choice 1..4 a text typed at the plot prompt names, 0 if it names none
NamedChoice(inp) ==
    IF Strip(inp) \in {<<"1">>, <<"2">>, <<"3">>, <<"4">>}
    THEN DigitVal(Strip(inp)[1]) ELSE 0

\* C5 (plot choice, default on invalid input): after the plot prompt was
\* answered, a text naming 1, 2, 3 or 4 has dispatched to the line, styled,
\* faceted or interactive variant; any other text has rendered the line
\* variant and the process ended with status 0.
C5_PlotDefault ==
    (pc = "done" /\ plot_input # None) =>
        CASE NamedChoice(plot_input) = 1 -> rendered = "line"
          [] NamedChoice(plot_input) = 2 -> rendered = "styled"
          [] NamedChoice(plot_input) = 3 -> rendered = "faceted"
          [] NamedChoice(plot_input) = 4 -> rendered = "interactive"
          [] OTHER -> rendered = "line" /\ exit_status = 0

-----------------------------------------------------------------------------
(* C6 *)

\* C6 (empty batch is fatal): once the batch fetch has returned an empty
\* mapping the run is at the emptiness check or has ended with status 1,
\* and no renderer was called; the check itself ends the run with status 1;
\* a renderer is only ever called with a non-empty mapping.
C6_EmptyBatchFatal ==
    /\ [] ( /\ (BatchReturned /\ DOMAIN data = {}) =>
                  /\ pc \in {"check", "done"}
                  /\ pc = "done" => exit_status = 1
                  /\ rendered = "none"
                  /\ plot_input = None
            /\ rendered # "none" => DOMAIN data # {} )
    /\ [][ (pc = "check" /\ DOMAIN data = {}) =>
              (pc' = "done" /\ exit_status' = 1 /\ rendered' = "none") ]_vars

\* every selected ticker failed and the run ended with status 1
C6_Witness ==
    /\ pc = "done"
    /\ BatchReturned
    /\ \A k \in 1..Len(log) : log[k].kind \in {"error", "empty"}
    /\ DOMAIN data = {}
    /\ exit_status = 1
    /\ rendered = "none"

-----------------------------------------------------------------------------
(* C7 *)

\* C7 as stated (ticker selection parsing): the last text typed at the
\* ticker prompt was accepted exactly if it is one or more digit groups
\* separated by single commas with every index in 1..len(tickers); an
\* accepted text yields the tickers at those indices in the entered order,
\* duplicates kept; a rejected text leaves the prompt open and selects
\* nothing.
C7_SelectionParsing_AsStated ==
    choices # None =>
        LET tickers == TickersOf(market)
            valid == DigitGroups(choices) /\ AllPicksInRange(choices, tickers)
        IN  /\ TickersAccepted <=> valid
            /\ TickersAccepted =>
                  /\ start_date = None => pc = "start"
                  /\ selected_tickers = Picks(choices, tickers)
            /\ ~TickersAccepted => selected_tickers = <<>>

\* C7 as amended: the same, with the text taken after its leading and
\* trailing whitespace is removed.
C7_SelectionParsing ==
    choices # None =>
        LET tickers == TickersOf(market)
            text == Strip(choices)
            valid == DigitGroups(text) /\ AllPicksInRange(text, tickers)
        IN  /\ TickersAccepted <=> valid
            /\ TickersAccepted =>
                  /\ start_date = None => pc = "start"
                  /\ selected_tickers = Picks(text, tickers)
            /\ ~TickersAccepted => selected_tickers = <<>>

\* "1,3,4" over the five tickers of the first market
C7_Witness ==
    /\ pc = "start"
    /\ market = MARKETS[1].name
    /\ Len(MARKETS[1].tickers) = 5
    /\ choices = <<"1", ",", "3", ",", "4">>
    /\ selected_tickers =
          <<MARKETS[1].tickers[1], MARKETS[1].tickers[3], MARKETS[1].tickers[4]>>

-----------------------------------------------------------------------------
(* C8 *)

\* C8 (sanitization collision): the snapshot path of a ticker is the cache
\* directory, the ticker with every '.' replaced by '_', "_", start, "_",
\* end and the extension, so two catalog tickers that differ only by '.'
\* versus '_' have the same path for the dates of the run, whatever they
\* are; and in a batch, once one of them has saved a snapshot, the fetch of
\* the other is a cache hit on that same file and yields the table read
\* from it.
C8_SanitizationCollision ==
    /\ DatesCollected =>
          \A t1 \in AllTickers :
             /\ FilePath(t1, start_date, end_date) =
                   CACHE_DIR \o Replace(t1, ".", "_") \o <<"_">> \o start_date
                             \o <<"_">> \o end_date \o <<".", "c", "s", "v">>
             /\ \A t2 \in AllTickers \ {t1} :
                   SameUpToDot(t1, t2) =>
                      FilePath(t1, start_date, end_date) =
                         FilePath(t2, start_date, end_date)
    /\ \A k, j \in 1..Len(log) :
          (k < j /\ log[k].kind = "saved"
                 /\ SameUpToDot(log[k].ticker, log[j].ticker)) =>
              /\ log[j].kind = "cached"
              /\ log[j].path = log[k].path
              /\ log[j].path \in DOMAIN cache
              /\ (pc \in {"fetch", "check"} /\ log[j].ticker # log[k].ticker)
                    => data[log[j].ticker] = read_csv(cache[log[k].path])

\* "B.A" saved a snapshot and "B_A" was then loaded from it
C8_Witness ==
    /\ pc = "check"
    /\ Len(log) = 2
    /\ log[1].kind = "saved"
    /\ log[1].ticker = T_BdotA
    /\ log[2].kind = "cached"
    /\ log[2].ticker = T_B_A
    /\ log[2].path = log[1].path

-----------------------------------------------------------------------------
(* C9 *)

\* C9 (failed or empty fetches leave the cache unchanged): a step that
\* reports an empty or failed download leaves every snapshot as it was and
\* adds no entry to the mapping; the set of snapshots changes only in a
\* step that reports a saved download, which adds exactly the file of the
\* processed ticker, holding the non-empty table the provider returned.
C9_FailedFetchFrame ==
    [][ /\ (Len(log') = Len(log) + 1 /\ Last(log').kind \in {"empty", "error"})
              => (cache' = cache /\ data' = data)
        /\ cache' # cache =>
              /\ InLoop
              /\ log' = Append(log, Notice("saved", CurrentTicker, CurrentPath))
              /\ CurrentPath \notin DOMAIN cache
              /\ DOMAIN cache' = DOMAIN cache \cup {CurrentPath}
              /\ \A p \in DOMAIN cache : cache'[p] = cache[p]
              /\ Len(cache'[CurrentPath]) > 1
              /\ Len(data'[CurrentTicker]) > 0
              /\ cache'[CurrentPath] = to_csv(data'[CurrentTicker])
      ]_vars

\* in a second run one ticker came back empty and one failed, and the
\* snapshots are those the first run left
C9_Witness ==
    /\ runs = 2
    /\ pc = "check"
    /\ cache0 # EmptyDict
    /\ cache = cache0
    /\ \E k, j \in 1..Len(log) :
          log[k].kind = "empty" /\ log[j].kind = "error"

-----------------------------------------------------------------------------
(* C10 *)

\* C10 (unconditional trust of the cache): no step removes a snapshot or
\* changes its content; and when a batch fetch returns, every selected
\* ticker whose snapshot existed when the run began maps to the table read
\* from that snapshot as it was then.
C10_CacheTrusted ==
    /\ [][ \A p \in DOMAIN cache :
              p \in DOMAIN cache' /\ cache'[p] = cache[p] ]_vars
    /\ [] ( /\ \A p \in DOMAIN cache0 :
                  p \in DOMAIN cache /\ cache[p] = cache0[p]
            /\ pc = "check" =>
                  \A k \in 1..Len(selected_tickers) :
                     LET t == selected_tickers[k]
                         p == FilePath(t, start_date, end_date)
                     IN  p \in DOMAIN cache0 =>
                            /\ t \in DOMAIN data
                            /\ data[t] = read_csv(cache0[p]) )

\* a second run fetched two tickers: one from a snapshot of the first run,
\* one downloaded anew, and the old snapshot is unchanged
C10_Witness ==
    /\ runs = 2
    /\ pc = "check"
    /\ cache # cache0
    /\ \E k \in 1..Len(log) :
          /\ log[k].kind = "cached"
          /\ log[k].path \in DOMAIN cache0
          /\ cache[log[k].path] = cache0[log[k].path]

====
